---- MODULE Spec2Model ----
(***************************************************************************)
(* A model of biotite.structure.io.xyz.XYZFile: the line buffer, the lazy  *)
(* header/structure caches and the public operations on one file object.   *)
(*                                                                         *)
(* A text line is the sequence of its whitespace separated tokens, which   *)
(* is all that str.split(), str.strip().isdigit(), int() and float() look  *)
(* at.  Line indices are kept 0-based as in the source; lines[i] of the    *)
(* source is ls[i+1] here.  A float is a record: a finite value counted in *)
(* units of 10^-7, or nan / inf / -inf.                                    *)
(***************************************************************************)
EXTENDS Integers, Sequences, FiniteSets, TLC

VARIABLES
    lines,             \* self.lines, the line buffer
    mol_names,         \* self._mol_names
    atom_numbers,      \* self._atom_numbers
    model_start_inds,  \* self._model_start_inds
    structures,        \* self._structures
    origin,            \* "new": constructed empty, "read": read from a file
    ncalls,            \* how many calls were made on the object
    lastSet,           \* the structure of the latest set_structure call, and
                       \* whether a parsed structure was cached at that call
    last               \* the latest call: arguments, object before, outcome

vars == <<lines, mol_names, atom_numbers, model_start_inds, structures,
          origin, ncalls, lastSet, last>>

N_HEADER == 2

\* The longest line buffer the model lets set_structure build.
MaxLines == 11

\* The largest model index passed to get_header, set_header, get_structure.
MaxModelArg == 2

\* The number of calls made on one file object.
MaxCalls == 3

-----------------------------------------------------------------------------
\* Tokens of a line

IntTok(n) == [t |-> "int", s |-> "", n |-> n]
WordTok(s) == [t |-> "word", s |-> s, n |-> 0]
\* a decimal literal with six places; n counts units of 10^-6
DecTok(n) == [t |-> "dec", s |-> "", n |-> n]
\* the texts "nan", "inf" and "-inf"
SpecialTok(k) == [t |-> "special", s |-> k, n |-> 0]

\* Floats
Fin(v) == [k |-> "fin", v |-> v]
NaN == [k |-> "nan", v |-> 0]
PosInf == [k |-> "inf", v |-> 0]
NegInf == [k |-> "-inf", v |-> 0]

\* Optional values (None of the source)
None == [set |-> FALSE, v |-> <<>>]
Some(v) == [set |-> TRUE, v |-> v]

Min(S) == CHOOSE x \in S : \A y \in S : x <= y

\* A formatter that cuts the digits after the sixth place instead of rounding
RoundTrunc(v) == IF v >= 0 THEN v \div 10 ELSE -((-v) \div 10)

\* Python's "{:.6f}".format(x): round to the nearest multiple of 10^-6
\* (ties to even), nan and the infinities are written by name.
Round6(v) ==
    LET q == v \div 10
        r == v % 10
    IN  IF r > 5 \/ (r = 5 /\ q % 2 = 1) THEN q + 1 ELSE q

FormatFloat(x) == IF x.k = "fin" THEN DecTok(Round6(x.v)) ELSE SpecialTok(x.k)

\* float(token): defined for integer, decimal and nan/inf texts
Floatable(tok) == tok.t \in {"int", "dec", "special"}

FloatOf(tok) ==
    IF tok.t = "int" THEN Fin(tok.n * 10000000)
    ELSE IF tok.t = "dec" THEN Fin(tok.n * 10)
    ELSE [k |-> tok.s, v |-> 0]

\* str(token) as stored in the element annotation
TokText(tok) == IF tok.t = "word" THEN tok.s ELSE ToString(tok)

\* line.strip().isdigit()
IsDigitLine(line) == Len(line) = 1 /\ line[1].t = "int"

\* int(line.strip()) of a line for which it is defined
IntOf(line) == line[1].n

-----------------------------------------------------------------------------
\* Structures handed to set_structure and returned by get_structure

Atom(e, x, y, z) == [element |-> e, coord |-> <<x, y, z>>]

Single(arr) == [stack |-> FALSE, models |-> <<arr>>]
Stack(ms) == [stack |-> TRUE, models |-> ms]
NoStruct == [stack |-> FALSE, models |-> <<>>]

aC == Atom("C", Fin(12345678), Fin(-15), Fin(0))
aH == Atom("H", Fin(10000000), Fin(4), Fin(-20000005))
aO == Atom("O", Fin(-12345674), Fin(25), Fin(30000000))
aNaN == Atom("C", Fin(0), NaN, Fin(0))
aInf == Atom("C", PosInf, Fin(0), NegInf)
aNoEl == Atom("", Fin(0), Fin(10000000), Fin(0))

\* atom a moved to the place of atom b
At(a, b) == [a EXCEPT !.coord = b.coord]

Structures ==
    { Single(<<aC>>), Single(<<aC, aH>>), Single(<<aNaN>>), Single(<<aInf>>),
      Single(<<aNoEl>>), Single(<<>>),
      Stack(<< <<aC>>, <<At(aC, aO)>> >>),
      Stack(<< <<aC, aH>>, <<At(aC, aH), At(aH, aO)>> >>),
      Stack(<< <<aO>> >>),
      Stack(<< <<>>, <<>> >>),
      Stack(<< <<aH>>, <<At(aH, aC)>>, <<At(aH, aO)>> >>) }

\* Names handed to set_header
MolNames == { <<WordTok("X")>>, <<IntTok(7)>> }

NoModel == [given |-> FALSE, k |-> 0]
Model(k) == [given |-> TRUE, k |-> k]

-----------------------------------------------------------------------------
\* Line buffers read from a file

AtomLine(e, x, y, z) == <<WordTok(e), x, y, z>>
Zero == IntTok(0)
One == IntTok(1)

ReadBuffers ==
    { \* the single model example
      << <<IntTok(2)>>, <<WordTok("[MOL]")>>,
         AtomLine("C", DecTok(0), DecTok(0), DecTok(0)),
         AtomLine("H", DecTok(1000000), DecTok(0), DecTok(0)) >>,
      \* two single-atom models
      << <<One>>, <<WordTok("A")>>, AtomLine("C", Zero, Zero, Zero),
         <<One>>, <<WordTok("B")>>, AtomLine("C", One, One, One) >>,
      \* three models, the middle one declares one atom more than it has
      << <<One>>, <<WordTok("A")>>, AtomLine("C", Zero, Zero, Zero),
         <<IntTok(2)>>, <<WordTok("B")>>, AtomLine("C", One, Zero, Zero),
         <<One>>, <<WordTok("D")>>, AtomLine("C", One, One, One) >>,
      \* one model that has one atom line more than it declares
      << <<One>>, <<WordTok("A")>>, AtomLine("C", Zero, Zero, Zero),
         AtomLine("H", One, One, One) >>,
      \* the last model is one atom line short
      << <<IntTok(2)>>, <<WordTok("A")>>, AtomLine("C", Zero, Zero, Zero) >>,
      \* non-finite coordinates
      << <<One>>, <<WordTok("A")>>, AtomLine("C", SpecialTok("nan"), Zero, Zero) >>,
      << <<One>>, <<WordTok("A")>>, AtomLine("C", Zero, SpecialTok("inf"), Zero) >>,
      << <<One>>, <<WordTok("A")>>, AtomLine("C", Zero, Zero, SpecialTok("-inf")) >>,
      \* two models, NaN in the second
      << <<One>>, <<WordTok("A")>>, AtomLine("C", Zero, Zero, Zero),
         <<One>>, <<WordTok("B")>>, AtomLine("C", Zero, SpecialTok("nan"), One) >>,
      \* a name that is a number
      << <<One>>, <<IntTok(7)>>, AtomLine("C", Zero, Zero, Zero) >>,
      \* three models whose elements differ
      << <<One>>, <<WordTok("A")>>, AtomLine("C", Zero, Zero, Zero),
         <<One>>, <<WordTok("B")>>, AtomLine("H", One, Zero, Zero),
         <<One>>, <<WordTok("D")>>, AtomLine("C", One, One, One) >>,
      \* header lines only
      << <<One>>, <<WordTok("A")>> >>,
      \* a count line at the very end
      << <<One>>, <<WordTok("A")>>, AtomLine("C", Zero, Zero, Zero), <<One>> >>,
      \* no count line at all
      << <<WordTok("A")>>, <<WordTok("B")>>, AtomLine("C", Zero, Zero, Zero) >> }

-----------------------------------------------------------------------------
\* The object's fields as one record, the argument and result of the methods

Self ==
    [lines |-> lines, mol_names |-> mol_names, atom_numbers |-> atom_numbers,
     model_start_inds |-> model_start_inds, structures |-> structures]

NoHeader == [scalar |-> FALSE, numbers |-> <<>>, names |-> <<>>]

\* What a call gives back: the object after it, the error raised ("" if none)
\* and the value returned.
Outcome(self, err, hdr, st, cnt) ==
    [self |-> self, err |-> err, hdr |-> hdr, st |-> st, cnt |-> cnt]

Raise(self, err) == Outcome(self, err, NoHeader, NoStruct, 0)

\* The 0-based indices 0 .. n-1 in order
Range0(n) == [i \in 1..n |-> i - 1]

\* __init__
NewFile ==
    [lines |-> [i \in 1..N_HEADER |-> <<>>], mol_names |-> None,
     atom_numbers |-> None, model_start_inds |-> None, structures |-> None]

\* A purge with the comparison inverted: it keeps the adjacent candidates
PurgeKeepAdjacent(cand) ==
    LET pos == SelectSeq([j \in 1..Len(cand) |-> j],
                         LAMBDA j : j = 1 \/ cand[j-1] - cand[j] = -1)
    IN  [k \in 1..Len(pos) |-> cand[pos[k]]]

\* The purge of __update_start_lines: position 0 and every position whose
\* predecessor is not exactly one line above.
Purge(cand) ==
    LET pos == SelectSeq([j \in 1..Len(cand) |-> j],
                         LAMBDA j : j = 1 \/ cand[j-1] - cand[j] # -1)
    IN  [k \in 1..Len(pos) |-> cand[pos[k]]]

Candidates(ls) == SelectSeq(Range0(Len(ls)), LAMBDA i : IsDigitLine(ls[i+1]))

\* __update_start_lines: the value it stores in _model_start_inds, from the
\* candidates.  The second branch is the source's elif, which no input
\* reaches.
Disambiguate(cand) ==
    IF Len(cand) > 1 THEN Purge(cand)
    ELSE IF Len(cand) = 2 THEN SubSeq(cand, 1, 1)
    ELSE cand

UpdateStartLines(ls) == Disambiguate(Candidates(ls))

\* __get_number_of_atoms, from the indices of the lines that do not have
\* four tokens: a list of texts, the count of a single model being written
\* here as the text str() makes of it
NumberOfAtomsAt(ls, inds) ==
    IF Len(inds) <= 2
    THEN << <<IntTok(Len(ls) - 2)>> >>
    ELSE [i \in 1..(Len(inds) \div 2) |-> ls[inds[2*i - 1] + 1]]

GetNumberOfAtoms(ls) ==
    NumberOfAtomsAt(ls, SelectSeq(Range0(Len(ls)), LAMBDA i : Len(ls[i+1]) # 4))

\* get_model_count
GetModelCount(self) ==
    Outcome(self, "", NoHeader, NoStruct, Len(GetNumberOfAtoms(self.lines)))

\* The counts and names read at the boundaries st, each only when it is not
\* cached.  Reading the name below a count line that ends the buffer raises
\* IndexError, after the counts were stored.
ReadHeaders(self, st) ==
    LET an == IF self.atom_numbers.set THEN self.atom_numbers
              ELSE Some([k \in 1..Len(st) |-> IntOf(self.lines[st[k] + 1])])
        s2 == [self EXCEPT !.model_start_inds = Some(st), !.atom_numbers = an]
    IN  IF self.mol_names.set THEN Raise(s2, "")
        ELSE IF \E k \in 1..Len(st) : st[k] + 2 > Len(self.lines)
        THEN Raise(s2, "IndexError")
        ELSE Raise([s2 EXCEPT !.mol_names =
                       Some([k \in 1..Len(st) |-> self.lines[st[k] + 2]])], "")

\* The header parse shared by get_header (lines 166-178) and get_structure
\* (lines 271-283): the boundaries are recomputed, then the headers read
ParseHeaders(self) == ReadHeaders(self, UpdateStartLines(self.lines))

\* The bound test of get_header
HeaderIndexBad(k, n) == k > n

\* What get_header returns after the header parse p (lines 180-191)
HeaderOf(p, model) ==
    LET s == p.self
        an == p.self.atom_numbers.v
        mn == p.self.mol_names.v
    IN  IF p.err # "" THEN p
        ELSE IF model.given
        THEN IF HeaderIndexBad(model.k, Len(an)) THEN Raise(s, "OutOfRange")
             ELSE IF model.k + 1 > Len(an) \/ model.k + 1 > Len(mn)
             THEN Raise(s, "IndexError")
             ELSE Outcome(s, "", [scalar |-> TRUE, numbers |-> <<an[model.k + 1]>>,
                                  names |-> <<mn[model.k + 1]>>], NoStruct, 0)
        ELSE IF Len(an) = 1
        THEN IF Len(mn) = 0 THEN Raise(s, "IndexError")
             ELSE Outcome(s, "", [scalar |-> TRUE, numbers |-> <<an[1]>>,
                                  names |-> <<mn[1]>>], NoStruct, 0)
        ELSE Outcome(s, "", [scalar |-> FALSE, numbers |-> an, names |-> mn],
                     NoStruct, 0)

\* get_header(model)
GetHeader(self, model) == HeaderOf(ParseHeaders(self), model)

\* A body test that is off by the header lines
HasBodyAtLeastHeader(ls) == Len(ls) >= 2

\* The test of set_header for a buffer that has body content
HasBody(ls) == Len(ls) > 2

\* The end of set_header without a model index (lines 227-230), l being the
\* buffer with its two header lines rewritten: int() of a first line that is
\* no number raises ValueError after lines and names were stored
StoreHeader(s, l, name) ==
    IF ~IsDigitLine(l[1])
    THEN Raise([s EXCEPT !.lines = l, !.mol_names = Some(<<name>>)], "ValueError")
    ELSE Raise([s EXCEPT !.lines = l, !.mol_names = Some(<<name>>),
                         !.atom_numbers = Some(<<IntOf(l[1])>>),
                         !.model_start_inds = Some(UpdateStartLines(l))], "")

\* lines[1] = name (line 226), l being the buffer after it
WriteCount(s, l, name) ==
    StoreHeader(s, [l EXCEPT ![1] = GetNumberOfAtoms(l)[1]], name)

\* set_header after the header read p it may start with (lines 215-236)
SetHeaderAfter(p, name, model) ==
    LET s == p.self
    IN  IF p.err # "" THEN Raise(s, p.err)
        ELSE IF model.given
        THEN IF Len(s.mol_names.v) > model.k
             THEN Raise([s EXCEPT !.mol_names.v[model.k + 1] = name], "")
             ELSE Raise(s, "BadModel")
        ELSE IF HasBody(s.lines)
        THEN WriteCount(s, [s.lines EXCEPT ![2] = name], name)
        ELSE Raise(s, "EmptyFile")

\* set_header(mol_name, model)
SetHeader(self, name, model) ==
    SetHeaderAfter(IF self.mol_names.set THEN Raise(self, "")
                   ELSE GetHeader(self, NoModel), name, model)

\* A NaN test that never fires
NaNTestNone(x, y, z) == FALSE

\* np.isnan(x) or np.isnan(y) or np.isnan(z)
NaNTest(x, y, z) == x.k = "nan" \/ y.k = "nan" \/ z.k = "nan"

\* The parse of one atom line (lines 303-319): the tokens 1, 2, 3 are read as
\* floats in turn, then the NaN test, then the element is token 0.
LineError(line) ==
    IF Len(line) < 2 THEN "IndexError"
    ELSE IF ~Floatable(line[2]) THEN "ValueError"
    ELSE IF Len(line) < 3 THEN "IndexError"
    ELSE IF ~Floatable(line[3]) THEN "ValueError"
    ELSE IF Len(line) < 4 THEN "IndexError"
    ELSE IF ~Floatable(line[4]) THEN "ValueError"
    ELSE IF NaNTest(FloatOf(line[2]), FloatOf(line[3]), FloatOf(line[4])) THEN "NaN"
    ELSE ""

ParseLine(line) ==
    Atom(TokText(line[1]), FloatOf(line[2]), FloatOf(line[3]), FloatOf(line[4]))

\* lines[ind:ind_end] of Python: the slice is cut at the end of the buffer
Slice(ls, from, to) ==
    LET hi == IF to > Len(ls) THEN Len(ls) ELSE to
    IN  IF from >= hi THEN <<>> ELSE SubSeq(ls, from + 1, hi)

\* The span test of get_structure
SpanBad(n, cut) == n + 2 # Len(cut)

\* One model of the parse loop (lines 288-321), cut being the slice of its
\* span: the error it raises, if any
CutError(n, cut) ==
    IF SpanBad(n, cut) THEN "Mismatch"
    ELSE IF \E j \in 3..Len(cut) : LineError(cut[j]) # ""
    THEN LineError(cut[Min({j \in 3..Len(cut) : LineError(cut[j]) # ""})])
    ELSE ""

ModelError(ls, ind, n) == CutError(n, Slice(ls, ind, ind + 2 + n))

ParseCut(cut) == [j \in 1..(Len(cut) - 2) |-> ParseLine(cut[j + 2])]

ParseModel(ls, ind, n) == ParseCut(Slice(ls, ind, ind + 2 + n))

\* biotite.structure.stack: the arrays must agree in their annotations
StackError(arrays) ==
    IF Len(arrays) = 0 THEN "StackError"
    ELSE IF \E i \in 1..Len(arrays) :
               \/ Len(arrays[i]) # Len(arrays[1])
               \/ \E j \in 1..Len(arrays[i]) :
                     arrays[i][j].element # arrays[1][j].element
    THEN "StackError"
    ELSE ""

\* The error of model i of the parse, a cached count that does not exist
\* being an IndexError
ErrorAt(s, i) ==
    IF i > Len(s.atom_numbers.v) THEN "IndexError"
    ELSE ModelError(s.lines, s.model_start_inds.v[i], s.atom_numbers.v[i])

ParseAll(s) ==
    [i \in 1..Len(s.model_start_inds.v) |->
        ParseModel(s.lines, s.model_start_inds.v[i], s.atom_numbers.v[i])]

\* The parse of all models (lines 285-322): the error of the first model
\* that raises one, else that of stacking them
ParseError(s) ==
    IF \E i \in 1..Len(s.model_start_inds.v) : ErrorAt(s, i) # ""
    THEN ErrorAt(s, Min({i \in 1..Len(s.model_start_inds.v) : ErrorAt(s, i) # ""}))
    ELSE StackError(ParseAll(s))

\* self._structures[model]: the position (1-based here, 0 if out of range)
\* that Python's indexing gives the index as it was passed
Select(ms, k) ==
    IF k >= 0 THEN (IF k < Len(ms) THEN k + 1 ELSE 0)
    ELSE IF -k <= Len(ms) THEN Len(ms) + k + 1
    ELSE 0

\* What get_structure returns from the parsed models (lines 324-330)
Selected(s, ms, model) ==
    IF ~model.given
    THEN IF Len(ms) = 1
         THEN Outcome(s, "", NoHeader, Single(ms[1]), 0)
         ELSE Outcome(s, "", NoHeader, Stack(ms), 0)
    ELSE IF Select(ms, model.k) = 0 THEN Raise(s, "IndexError")
    ELSE Outcome(s, "", NoHeader, Single(ms[Select(ms, model.k)]), 0)

\* The parse of get_structure (lines 285-322) with its outcome perr, made
\* only when no structure is cached
Structured(s, perr, model) ==
    IF s.structures.set THEN Selected(s, s.structures.v, model)
    ELSE IF perr # "" THEN Raise(s, perr)
    ELSE Selected([s EXCEPT !.structures = Some(ParseAll(s))], ParseAll(s), model)

\* get_structure after the second header parse p (lines 271-283)
AfterHeaders(p, model) ==
    IF p.err # "" THEN Raise(p.self, p.err)
    ELSE Structured(p.self, IF p.self.structures.set THEN ""
                            ELSE ParseError(p.self), model)

\* get_structure after its call h of get_header() (line 264).  get_header()
\* never returns None, so the source's call of set_header("[MOLNAME]") is
\* never made.
AfterGetHeader(h, model) ==
    IF h.err # "" THEN Raise(h.self, h.err)
    ELSE AfterHeaders(ParseHeaders(h.self), model)

\* The test of get_structure for a buffer that has body content
StructureHasBody(ls) == Len(ls) > 2

\* get_structure(model)
GetStructure(self, model) ==
    IF ~StructureHasBody(self.lines) THEN Raise(self, "EmptyFile")
    ELSE AfterGetHeader(GetHeader(self, NoModel), model)

\* The line set_structure writes for one atom; an empty element leaves
\* three tokens
AtomText(atom) ==
    (IF atom.element = "" THEN <<>> ELSE <<WordTok(atom.element)>>)
    \o <<FormatFloat(atom.coord[1]), FormatFloat(atom.coord[2]),
         FormatFloat(atom.coord[3])>>

\* How many lines set_structure appends
Appended(atoms) ==
    IF atoms.stack
    THEN (Len(atoms.models[1]) + 2) * Len(atoms.models)
    ELSE Len(atoms.models[1])

\* set_structure(atoms): only the line buffer is written
SetStructure(self, atoms) ==
    LET n == Len(atoms.models[1])
        ext == self.lines \o [i \in 1..Appended(atoms) |-> <<>>]
    IN  IF ~atoms.stack
        THEN Raise([self EXCEPT !.lines =
               [i \in 1..Len(ext) |->
                  IF i = 1 THEN <<IntTok(n)>>
                  ELSE IF i = 2
                  THEN (IF Len(ext[2]) = 0 THEN <<WordTok("[MOLNAME]")>> ELSE ext[2])
                  ELSE IF i <= n + 2 THEN AtomText(atoms.models[1][i - 2])
                  ELSE ext[i]]], "")
        ELSE Raise([self EXCEPT !.lines =
               [i \in 1..Len(ext) |->
                  LET m == (i - 1) \div (n + 2)
                      j == (i - 1) % (n + 2)
                  IN  IF m >= Len(atoms.models) THEN ext[i]
                      ELSE IF j = 0 THEN <<IntTok(n)>>
                      ELSE IF j = 1 THEN <<IntTok(m)>>
                      ELSE AtomText(atoms.models[m + 1][j - 1])]], "")

-----------------------------------------------------------------------------
\* The calls

ModelArgs == {NoModel} \cup {Model(k) : k \in 0..MaxModelArg}
SignedModelArgs == {NoModel} \cup {Model(k) : k \in (-MaxModelArg)..MaxModelArg}

\* The record of a call.  first: the call is the first one made on an
\* object that was constructed empty; second: it directly follows a
\* set_structure call that was the first one on such an object.
Call(op, model, name, atoms, out) ==
    [op |-> op, model |-> model, name |-> name, atoms |-> atoms, pre |-> Self,
     err |-> out.err, hdr |-> out.hdr, st |-> out.st, cnt |-> out.cnt,
     first |-> (origin = "new" /\ ncalls = 0),
     second |-> (last.op = "set_structure" /\ last.first)]

Store(self) ==
    /\ ncalls < MaxCalls
    /\ ncalls' = ncalls + 1
    /\ lines' = self.lines
    /\ mol_names' = self.mol_names
    /\ atom_numbers' = self.atom_numbers
    /\ model_start_inds' = self.model_start_inds
    /\ structures' = self.structures

Init ==
    /\ origin \in {"new", "read"}
    /\ lines \in IF origin = "new" THEN {NewFile.lines} ELSE ReadBuffers
    /\ mol_names = None
    /\ atom_numbers = None
    /\ model_start_inds = None
    /\ structures = None
    /\ lastSet = [valid |-> FALSE, atoms |-> NoStruct, cached |-> FALSE]
    /\ ncalls = 0
    /\ last = [op |-> "init", model |-> NoModel, name |-> <<>>, atoms |-> NoStruct,
               pre |-> Self, err |-> "", hdr |-> NoHeader, st |-> NoStruct,
               cnt |-> 0, first |-> FALSE, second |-> FALSE]

\* A call ends: the object and the record of the call are stored
Finish(op, model, name, atoms, out) ==
    /\ Store(out.self)
    /\ last' = Call(op, model, name, atoms, out)

GetHeaderCall ==
    \E m \in ModelArgs :
        /\ Finish("get_header", m, <<>>, NoStruct, GetHeader(Self, m))
        /\ UNCHANGED <<origin, lastSet>>

SetHeaderCall ==
    \E m \in ModelArgs, name \in MolNames :
        /\ Finish("set_header", m, name, NoStruct, SetHeader(Self, name, m))
        /\ UNCHANGED <<origin, lastSet>>

GetStructureCall ==
    \E m \in SignedModelArgs :
        /\ Finish("get_structure", m, <<>>, NoStruct, GetStructure(Self, m))
        /\ UNCHANGED <<origin, lastSet>>

SetStructureCall ==
    \E atoms \in Structures :
        /\ Len(lines) + Appended(atoms) <= MaxLines
        /\ Finish("set_structure", NoModel, <<>>, atoms, SetStructure(Self, atoms))
        /\ lastSet' = [valid |-> TRUE, atoms |-> atoms, cached |-> structures.set]
        /\ UNCHANGED origin

GetModelCountCall ==
    /\ Finish("get_model_count", NoModel, <<>>, NoStruct, GetModelCount(Self))
    /\ UNCHANGED <<origin, lastSet>>

Next ==
    \/ GetHeaderCall
    \/ SetHeaderCall
    \/ GetStructureCall
    \/ SetStructureCall
    \/ GetModelCountCall

Spec == Init /\ [][Next]_vars

-----------------------------------------------------------------------------
\* Vocabulary of the properties

\* Two floats agree to six decimal places
Close(a, b) ==
    IF a.k = "fin" /\ b.k = "fin"
    THEN a.v - b.v <= 5 /\ b.v - a.v <= 5
    ELSE a.k = b.k

SameAtoms(m1, m2) ==
    /\ Len(m1) = Len(m2)
    /\ \A j \in 1..Len(m1) :
          /\ m1[j].element = m2[j].element
          /\ \A c \in 1..3 : Close(m1[j].coord[c], m2[j].coord[c])

\* Same number of models, same atoms per model
SameStructure(a, b) ==
    /\ Len(a.models) = Len(b.models)
    /\ \A i \in 1..Len(a.models) : SameAtoms(a.models[i], b.models[i])

AllAtoms(st) ==
    UNION {{st.models[i][j] : j \in 1..Len(st.models[i])} : i \in 1..Len(st.models)}

HasKind(st, kinds) == \E a \in AllAtoms(st) : \E c \in 1..3 : a.coord[c].k \in kinds

\* A structure whose every model has an atom, whose elements are non-empty
\* and whose coordinates are not NaN
Writable(st) ==
    /\ \A i \in 1..Len(st.models) : Len(st.models[i]) >= 1
    /\ \A a \in AllAtoms(st) : a.element # ""
    /\ ~HasKind(st, {"nan"})

\* The call is get_structure() made directly after the first call on a newly
\* constructed object, which was set_structure(lastSet.atoms)
ReadBack == last.op = "get_structure" /\ ~last.model.given /\ last.second

\* The call is the first one made on an object read from a file
FirstOnRead == origin = "read" /\ ncalls = 1

\* A line of an element and three numbers
IsAtomLine(l) ==
    /\ Len(l) = 4
    /\ l[1].t = "word"
    /\ \A c \in 2..4 : Floatable(l[c])

\* The declared atom counts of a buffer made of whole models (a count line,
\* a name line, that many atom lines), <<-1>> for any other buffer
RECURSIVE Declared(_)
Declared(ls) ==
    IF ls = <<>> THEN <<>>
    ELSE IF Len(ls) < 2 \/ ~IsDigitLine(ls[1]) THEN <<-1>>
    ELSE LET n == IntOf(ls[1])
         IN  IF Len(ls) < n + 2 \/ \E j \in 3..(n + 2) : ~IsAtomLine(ls[j])
             THEN <<-1>>
             ELSE LET r == Declared(SubSeq(ls, n + 3, Len(ls)))
                  IN  IF r = <<-1>> THEN r ELSE <<n>> \o r

WholeModels(ls) == Declared(ls) # <<-1>>

\* The candidate boundaries and those the disambiguation keeps, as sets
Cand(ls) == {i \in 0..(Len(ls) - 1) : IsDigitLine(ls[i + 1])}
Kept(ls) == {c \in Cand(ls) : c = Min(Cand(ls)) \/ (c - 1) \notin Cand(ls)}

Ascending(q) == \A i, j \in 1..Len(q) : i < j => q[i] < q[j]
SetOf(q) == {q[i] : i \in 1..Len(q)}

\* The spans the parse of the latest call read: boundary, declared count
Spans == {<<model_start_inds.v[i], atom_numbers.v[i]>> :
             i \in 1..Min({Len(model_start_inds.v), Len(atom_numbers.v)})}

\* The 1-based positions of the atom lines of a span that are in the buffer
SpanLines(sp) == {j \in (sp[1] + 3)..(sp[1] + 2 + sp[2]) : j <= Len(lines)}

HasTokenKind(l, kinds) ==
    \E c \in 2..4 : c <= Len(l) /\ l[c].t = "special" /\ l[c].s \in kinds

\* An atom line of some model holds a coordinate token of one of the kinds
SpanHasKind(kinds) ==
    \E sp \in Spans : \E j \in SpanLines(sp) : HasTokenKind(lines[j], kinds)

\* The parse of the latest call had nothing to object to but NaN: every
\* span is whole and every line in it is an atom line
SpansWhole ==
    /\ Len(atom_numbers.v) >= Len(model_start_inds.v)
    /\ \A sp \in Spans :
           /\ sp[1] + 2 + sp[2] <= Len(lines)
           /\ \A j \in SpanLines(sp) : IsAtomLine(lines[j])

\* get_structure parsed the buffer in the latest call
Parsed ==
    /\ last.op = "get_structure"
    /\ ~last.pre.structures.set
    /\ Len(last.pre.lines) > 2
    /\ model_start_inds.set /\ atom_numbers.set /\ mol_names.set

-----------------------------------------------------------------------------
\* C1 as stated: whatever structure set_structure wrote to a newly
\* constructed file, get_structure gives back the same number of models, the
\* same atoms per model, the same elements and the same coordinates to six
\* decimal places.
C1_RoundTripEvery ==
    ReadBack => last.err = "" /\ SameStructure(lastSet.atoms, last.st)

\* C1 amended: the round trip holds for every structure whose models have at
\* least one atom, whose element labels are not empty and whose coordinates
\* are not NaN.
C1_RoundTrip ==
    (ReadBack /\ Writable(lastSet.atoms))
        => last.err = "" /\ SameStructure(lastSet.atoms, last.st)

\* C1: a stack of two models of two atoms was written and read back
C1_Witness ==
    /\ ReadBack /\ Writable(lastSet.atoms)
    /\ lastSet.atoms.stack /\ Len(lastSet.atoms.models) >= 2
    /\ Len(lastSet.atoms.models[1]) >= 2
    /\ last.err = "" /\ last.st.stack

\* C2: on a buffer of N >= 2 whole models, read from a file or written by
\* set_structure from an N-model stack to a new file, get_model_count
\* returns N and the header parse reports the N declared atom counts.
C2_ModelCount ==
    LET ls == last.pre.lines
        written == last.second /\ lastSet.atoms.stack
                   /\ Len(lastSet.atoms.models) >= 2
                   /\ Writable(lastSet.atoms)
        read == FirstOnRead /\ WholeModels(ls) /\ Len(Declared(ls)) >= 2
    IN  /\ (last.op = "get_model_count" /\ read) => last.cnt = Len(Declared(ls))
        /\ (last.op = "get_header" /\ ~last.model.given /\ read)
              => last.err = "" /\ last.hdr.numbers = Declared(ls)
        /\ (last.op = "get_model_count" /\ written)
              => last.cnt = Len(lastSet.atoms.models)
        /\ (last.op = "get_header" /\ ~last.model.given /\ written)
              => /\ last.err = ""
                 /\ last.hdr.numbers = [i \in 1..Len(lastSet.atoms.models) |->
                                           Len(lastSet.atoms.models[1])]

\* C3: when get_structure parses a buffer in which some model's atom lines,
\* up to the next boundary or the end of the buffer, are fewer or more than
\* its count line declares, the call fails with the mismatch error.
C3_SpanMismatch ==
    LET st == model_start_inds.v
        end(i) == IF i < Len(st) THEN st[i + 1] ELSE Len(lines)
    IN  (/\ Parsed /\ ~last.model.given
         /\ FirstOnRead
         /\ \E i \in 1..Len(st) : end(i) - st[i] - 2 # atom_numbers.v[i])
            => last.err = "Mismatch"

\* C4 as stated: get_structure fails with the invalid-numeric-data error
\* whenever a coordinate token of an atom line of a model is NaN, +Inf or
\* -Inf, and never returns a structure with such a coordinate.
C4_NonFiniteRejected ==
    /\ (last.op = "get_structure" /\ last.err = "")
          => ~HasKind(last.st, {"nan", "inf", "-inf"})
    /\ (Parsed /\ ~last.model.given /\ SpansWhole
        /\ SpanHasKind({"nan", "inf", "-inf"}))
          => last.err = "NaN"

\* C4 amended: get_structure never returns a structure with a NaN
\* coordinate; a parse that meets a NaN coordinate token in an atom line of
\* a model fails, with the invalid-numeric-data error when the spans are
\* whole; that error is raised for NaN only, infinities are accepted.
C4_NaNRejected ==
    /\ (last.op = "get_structure" /\ last.err = "") => ~HasKind(last.st, {"nan"})
    /\ (Parsed /\ SpanHasKind({"nan"})) => last.err # ""
    /\ (Parsed /\ SpanHasKind({"nan"}) /\ SpansWhole) => last.err = "NaN"
    /\ last.err = "NaN" => Parsed /\ SpanHasKind({"nan"})
    /\ (Parsed /\ SpansWhole /\ ~SpanHasKind({"nan"})) => last.err # "NaN"

\* C4: a parse met NaN in the second model and raised the error
C4_Witness ==
    /\ Parsed /\ SpansWhole /\ SpanHasKind({"nan"})
    /\ Len(model_start_inds.v) >= 2
    /\ last.err = "NaN"

\* C5: get_header(model=k) on a file of N models returns the count and the
\* name of model k for 0 <= k < N and fails with the out-of-range error for
\* every k >= N.
C5_HeaderIndex ==
    LET ls == last.pre.lines
        st == UpdateStartLines(ls)
        k == last.model.k
    IN  (/\ last.op = "get_header" /\ last.model.given
         /\ FirstOnRead /\ Len(st) >= 1
         /\ \A i \in 1..Len(st) : st[i] + 2 <= Len(ls))
            => /\ k < Len(st) =>
                    /\ last.err = ""
                    /\ last.hdr.numbers = <<IntOf(ls[st[k + 1] + 1])>>
                    /\ last.hdr.names = <<ls[st[k + 1] + 2]>>
               /\ k >= Len(st) => last.err = "OutOfRange"

\* C6: get_structure(model=k) counts models from 1, and from the end for a
\* negative k.
C6_OneBased ==
    LET ms == structures.v
        k == last.model.k
    IN  (/\ last.op = "get_structure" /\ last.model.given
         /\ FirstOnRead /\ structures.set)
            => /\ (1 <= k /\ k <= Len(ms))
                    => last.err = "" /\ last.st = Single(ms[k])
               /\ (-Len(ms) <= k /\ k <= -1)
                    => last.err = "" /\ last.st = Single(ms[Len(ms) + k + 1])

\* C7 as stated: on a buffer without body content get_header, set_header
\* without a model index and get_structure fail with the
\* premature-operation error.
C7_PrematureAll ==
    (/\ Len(last.pre.lines) <= N_HEADER
     /\ \/ last.op = "get_header"
        \/ last.op = "set_header" /\ ~last.model.given
        \/ last.op = "get_structure")
        => last.err = "EmptyFile"

\* C7 amended: on the two empty lines of a newly constructed buffer
\* set_header without a model index and get_structure fail with the
\* premature-operation error, as get_structure does on every buffer of at
\* most two lines; get_header does not fail there, without a model index it
\* returns a pair of empty lists.
C7_Premature ==
    /\ (/\ last.pre.lines = NewFile.lines
        /\ \/ last.op = "set_header" /\ ~last.model.given
           \/ last.op = "get_structure")
           => last.err = "EmptyFile"
    /\ (Len(last.pre.lines) <= N_HEADER /\ last.op = "get_structure")
           => last.err = "EmptyFile"
    /\ (last.pre.lines = NewFile.lines /\ last.op = "get_header"
        /\ ~last.model.given)
           => /\ last.err = ""
              /\ last.hdr = [scalar |-> FALSE, numbers |-> <<>>, names |-> <<>>]

\* C7: set_header without a model index failed on the two empty lines
C7_Witness ==
    /\ last.pre.lines = NewFile.lines
    /\ last.op = "set_header" /\ ~last.model.given
    /\ last.err = "EmptyFile"

\* C8: a get_structure or get_header call that follows set_structure(B)
\* reports B, also when header and structure of another structure were
\* cached before B was set.
C8_SetInvalidates ==
    (lastSet.valid /\ lastSet.cached /\ Writable(lastSet.atoms))
        => /\ (last.op = "get_structure" /\ ~last.model.given)
                 => last.err = "" /\ SameStructure(lastSet.atoms, last.st)
           /\ (last.op = "get_header" /\ ~last.model.given)
                 => /\ last.err = ""
                    /\ \A i \in 1..Len(last.hdr.numbers) :
                          last.hdr.numbers[i] = Len(lastSet.atoms.models[1])

C10_CacheConsistent ==
    origin = "new"
        => /\ \/ ~atom_numbers.set /\ ~mol_names.set
              \/ /\ atom_numbers.set /\ mol_names.set
                 /\ Len(atom_numbers.v) = Len(UpdateStartLines(lines))
                 /\ Len(mol_names.v) = Len(UpdateStartLines(lines))
           /\ last.err # ""
                 => /\ atom_numbers = last.pre.atom_numbers
                    /\ mol_names = last.pre.mol_names

====
